---- MODULE Spec2Model ----
(***************************************************************************)
(* A model of the alpaca front end: the lexer (src/src/lexer.rs) and the   *)
(* parser built on it (src/src/parser).                                    *)
(*                                                                         *)
(* A source text is a sequence of characters.  A character is a string:    *)
(* an ASCII character stands for itself, a non-ASCII one is named by its   *)
(* code point ("U+00E9").  Byte offsets are computed from the UTF-8        *)
(* length of every character, so a character offset and a byte offset are  *)
(* different numbers as soon as the text holds a multi-byte character.     *)
(***************************************************************************)
EXTENDS Integers, Sequences, FiniteSets, TLC

VARIABLES
    src,              \* the source text handed to Lexer::new / Parser::new
    overflow_checks,  \* the build: TRUE when integer overflow panics
    lexer,            \* Lexer: chars consumed (idx), position, line, column
    panicked,         \* the thread has panicked
    ret,              \* what the last call of Lexer::next_token returned
    ncalls,           \* calls of Lexer::next_token made so far
    peeked,           \* Parser::peeked (NoToken for None)
    current_token_span, \* Parser::current_token_span
    result,           \* what the last call of a Parser method returned
    advanced          \* history: the tokens Parser::advance handed out

vars ==
    <<src, overflow_checks, lexer, panicked, ret, ncalls, peeked,
      current_token_span, result, advanced>>

----------------------------------------------------------------------------
(* Bounds *)

\* Longest source text drawn by Init, in characters.
MaxLen == 3
\* Calls of next_token made after the input is exhausted.
MaxEofCalls == 3
\* Longest source text drawn by InitOperators, in characters.
MaxOpLen == 3

----------------------------------------------------------------------------
(* Characters *)

QUOTE == "\""
NEWLINE == "\n"

AsciiDigits == {"0", "1", "2", "3", "4", "5", "6", "7", "8", "9"}
AsciiLetters ==
    {"a", "b", "c", "d", "e", "f", "g", "h", "i", "j", "k", "l", "m",
     "n", "o", "p", "q", "r", "s", "t", "u", "v", "w", "x", "y", "z"}

\* U+00E9 LATIN SMALL LETTER E WITH ACUTE (a letter, 2 bytes)
\* U+0663 ARABIC-INDIC DIGIT THREE        (general category Nd, 2 bytes)
\* U+00BD VULGAR FRACTION ONE HALF        (general category No, 2 bytes)
\* U+00A0 NO-BREAK SPACE                  (White_Space, 2 bytes)
\* U+20AC EURO SIGN                       (a symbol, 3 bytes)
TwoByteChars == {"U+00E9", "U+0663", "U+00BD", "U+00A0"}
ThreeByteChars == {"U+20AC"}

\* char::len_utf8
len_utf8(c) ==
    IF c \in TwoByteChars THEN 2 ELSE IF c \in ThreeByteChars THEN 3 ELSE 1

\* char::is_numeric: general categories Nd, Nl, No
is_numeric(c) == c \in AsciiDigits \cup {"U+0663", "U+00BD"}

\* UnicodeXID::is_xid_start
is_xid_start(c) == c \in AsciiLetters \cup {"U+00E9"}

\* UnicodeXID::is_xid_continue
is_xid_continue(c) ==
    c \in AsciiLetters \cup AsciiDigits \cup {"_", "U+00E9", "U+0663"}

\* char::is_whitespace
is_whitespace(c) == c \in {" ", "\t", NEWLINE, "U+00A0"}

RECURSIVE str_len(_)
\* str::len / String::len: the length in bytes
str_len(s) == IF s = <<>> THEN 0 ELSE len_utf8(Head(s)) + str_len(Tail(s))

----------------------------------------------------------------------------
(* Tokens and spans *)

\* usize arithmetic wraps modulo 2^64 in a build without overflow checks.
\* TLC's integers are 32 bits wide, so the model keeps the wrap-around and
\* scales the width down: every offset of the model is far below 2^30.
UsizeBits == 30
UsizeModulus == 2 ^ UsizeBits

\* Every keyword of get_keyword, with its text.
Keywords ==
    [And |-> <<"a", "n", "d">>, Do |-> <<"d", "o">>,
     Else |-> <<"e", "l", "s", "e">>, End |-> <<"e", "n", "d">>,
     False |-> <<"f", "a", "l", "s", "e">>, For |-> <<"f", "o", "r">>,
     Fun |-> <<"f", "u", "n">>, If |-> <<"i", "f">>,
     Let |-> <<"l", "e", "t">>, Or |-> <<"o", "r">>,
     Return |-> <<"r", "e", "t", "u", "r", "n">>,
     True |-> <<"t", "r", "u", "e">>, Type |-> <<"t", "y", "p", "e">>,
     While |-> <<"w", "h", "i", "l", "e">>]

\* A TokenKind: its variant and, for String, Integer, Ident and Error, the
\* payload.
Tok(kind, text) == [kind |-> kind, text |-> text]

get_keyword(name) ==
    IF \E k \in DOMAIN Keywords : Keywords[k] = name
    THEN Tok(CHOOSE k \in DOMAIN Keywords : Keywords[k] = name, <<>>)
    ELSE Tok("Ident", name)

\* No token: nothing returned yet, Option::None.
NoToken == [kind |-> "None", text |-> <<>>, start |-> 0, end |-> 0]

\* Span::from(start..end)
Span(start, end) == [start |-> start, end |-> end]

\* No Parser method has returned yet.
NoResult == [op |-> "none", arg |-> <<>>, tag |-> "none", val |-> <<>>]

----------------------------------------------------------------------------
(* Lexer *)

Lexer_new == [idx |-> 0, position |-> 0, line |-> 1, column |-> 0]

\* Peekable<Chars>::peek: the next character, or "" for None.
Lexer_peek(L) == IF L.idx < Len(src) THEN src[L.idx + 1] ELSE ""

Lexer_at_end(L) == Lexer_peek(L) = ""

Lexer_advance_rewinds(L) ==
    [L EXCEPT !.position = (L.position + 1) % UsizeModulus,
              !.idx = IF L.idx < Len(src) THEN L.idx + 1 ELSE 0]

\* Lexer::advance: position += 1, whether or not a character is left.
Lexer_advance(L) ==
    [L EXCEPT !.position = (L.position + 1) % UsizeModulus,
              !.idx = IF L.idx < Len(src) THEN L.idx + 1 ELSE L.idx]

\* Lexer::consume taking the next character whatever it is.
Lexer_consume_any(L, expected) ==
    IF Lexer_peek(L) # "" THEN Lexer_advance(L) ELSE L

\* Lexer::consume: the lexer after the call.  It has advanced exactly when
\* the call returns true (advance always changes position).
Lexer_consume(L, expected) ==
    IF Lexer_peek(L) = expected THEN Lexer_advance(L) ELSE L

\* What a lexing function returns: the token and its span, the lexer state
\* it leaves, or a panic.
Lexed(L, tok, start, end, panic) ==
    [lexer |-> L, panic |-> panic,
     tok |-> [kind |-> tok.kind, text |-> tok.text,
              start |-> start, end |-> end]]

\* Lexer::create_token: Span::from(position - len..position).  The
\* subtraction is on usize: when len > position it panics in a build with
\* overflow checks and wraps in one without.
create_token(L, tok, len) ==
    IF L.position >= len
    THEN Lexed(L, tok, L.position - len, L.position, FALSE)
    ELSE IF overflow_checks
         THEN Lexed(L, Tok("None", <<>>), 0, 0, TRUE)
         ELSE Lexed(L, tok, L.position - len + UsizeModulus, L.position,
                    FALSE)

RECURSIVE lex_string_loop(_)
\* The while loop of lex_string: up to the closing quote or the end.
lex_string_loop(L) ==
    IF ~Lexer_at_end(L) /\ Lexer_peek(L) # QUOTE
    THEN lex_string_loop(Lexer_advance(L))
    ELSE L

\* Lexer::lex_string, called after the opening quote is consumed.
lex_string(L) ==
    LET L1 == lex_string_loop(L)
        value == SubSeq(src, L.idx + 1, L1.idx)
        len == str_len(value)
    IN  IF Lexer_at_end(L1)
        THEN create_token(L1, Tok("Error", <<"Unterminated string literal">>),
                          len)
        ELSE create_token(Lexer_advance(L1), Tok("String", value), len)

RECURSIVE lex_number_loop(_)
lex_number_loop(L) ==
    IF ~Lexer_at_end(L) /\ is_numeric(Lexer_peek(L))
    THEN lex_number_loop(Lexer_advance(L))
    ELSE L

\* Lexer::lex_number, called after first_char is consumed.
lex_number(L, first_char) ==
    LET L1 == lex_number_loop(L)
        value == <<first_char>> \o SubSeq(src, L.idx + 1, L1.idx)
    IN  create_token(L1, Tok("Integer", value), str_len(value))

RECURSIVE lex_identifier_loop(_)
lex_identifier_loop(L) ==
    IF ~Lexer_at_end(L) /\ is_xid_continue(Lexer_peek(L))
    THEN lex_identifier_loop(Lexer_advance(L))
    ELSE L

\* Lexer::lex_identifier, called after first_char is consumed.
lex_identifier(L, first_char) ==
    LET L1 == lex_identifier_loop(L)
        value == <<first_char>> \o SubSeq(src, L.idx + 1, L1.idx)
    IN  create_token(L1, get_keyword(value), str_len(value))

\* The one- and two-character operators of next_token:
\* first character -> <<second character, two-character kind, one-character kind>>
TwoCharOps ==
    [c \in {"=", "!", ">", "<", "-"} |->
        CASE c = "=" -> <<"=", "EqualEqual", "Equal">>
          [] c = "!" -> <<"=", "BangEqual", "Bang">>
          [] c = ">" -> <<"=", "GreaterEqual", "Greater">>
          [] c = "<" -> <<"=", "LessEqual", "Less">>
          [] c = "-" -> <<">", "Arrow", "Minus">>]

\* The single-character tokens of next_token.
OneCharTokens ==
    [c \in {"(", ")", "[", "]", ",", ":", "+", "*", "/"} |->
        CASE c = "(" -> "OpenParen"
          [] c = ")" -> "CloseParen"
          [] c = "[" -> "OpenBracket"
          [] c = "]" -> "CloseBracket"
          [] c = "," -> "Comma"
          [] c = ":" -> "Colon"
          [] c = "+" -> "Plus"
          [] c = "*" -> "Star"
          [] c = "/" -> "Slash"]

next_token_unknown_eats_next(L, c) ==
    create_token(Lexer_advance(L), Tok("Error", <<"Unknown character", c>>),
                 1)

\* The last arm of next_token's match leaving the character in the input.
next_token_unknown_puts_back(L, c) ==
    create_token([L EXCEPT !.idx = L.idx - 1],
                 Tok("Error", <<"Unknown character", c>>), 1)

\* The last arm of next_token's match: an error token for the character c
\* that was just consumed.
next_token_unknown(L, c) ==
    create_token(L, Tok("Error", <<"Unknown character", c>>), 1)

RECURSIVE next_token(_)
\* Lexer::next_token
next_token(L) ==
    LET c == Lexer_peek(L)
        L1 == Lexer_advance(L)
    IN  IF c = ""
        THEN create_token(L1, Tok("EoF", <<>>), 0)
        ELSE CASE c \in DOMAIN OneCharTokens ->
                    create_token(L1, Tok(OneCharTokens[c], <<>>), 1)
               [] c \in DOMAIN TwoCharOps ->
                    LET L2 == Lexer_consume(L1, TwoCharOps[c][1])
                    IN  IF L2 # L1
                        THEN create_token(L2, Tok(TwoCharOps[c][2], <<>>), 2)
                        ELSE create_token(L2, Tok(TwoCharOps[c][3], <<>>), 1)
               [] c = QUOTE -> lex_string(L1)
               [] OTHER ->
                    IF is_numeric(c) THEN lex_number(L1, c)
                    ELSE IF is_xid_start(c) \/ c = "_"
                    THEN lex_identifier(L1, c)
                    ELSE IF c = NEWLINE
                    THEN next_token([L1 EXCEPT !.line = L1.line + 1,
                                               !.column = 0])
                    ELSE IF is_whitespace(c) THEN next_token(L1)
                    ELSE next_token_unknown(L1, c)

----------------------------------------------------------------------------
(* The lexer driven directly *)

\* The characters the source texts of Spec are made of.
LexAlphabet ==
    {"(", "=", "-", ">", QUOTE, "1", "o", "r", "_", NEWLINE, " ", "$",
     "U+00E9", "U+0663", "U+00A0", "U+20AC"}

RECURSIVE SeqsUpTo(_, _)
\* Every sequence over S of length at most n.
SeqsUpTo(S, n) ==
    IF n = 0 THEN {<<>>}
    ELSE LET shorter == SeqsUpTo(S, n - 1)
         IN  shorter \cup {Append(s, c) : s \in shorter, c \in S}

Init ==
    /\ src \in SeqsUpTo(LexAlphabet, MaxLen)
    /\ overflow_checks \in BOOLEAN
    /\ lexer = Lexer_new
    /\ panicked = FALSE
    /\ ret = NoToken
    /\ ncalls = 0
    /\ peeked = NoToken
    /\ current_token_span = Span(0, 0)
    /\ result = NoResult
    /\ advanced = <<>>

\* One call of Lexer::next_token.
NextToken ==
    /\ ~panicked
    /\ lexer.position < Len(src) + MaxEofCalls
    /\ LET r == next_token(lexer)
       IN  /\ lexer' = r.lexer
           /\ panicked' = r.panic
           /\ ret' = r.tok
    /\ ncalls' = ncalls + 1
    /\ UNCHANGED <<src, overflow_checks, peeked, current_token_span, result,
                   advanced>>

Next == NextToken

Spec == Init /\ [][Next]_vars

\* The characters the source texts of SpecOperators are made of: the
\* operator characters, the usual markers of a line comment, and what
\* separates tokens.
OperatorAlphabet ==
    {"=", "!", ">", "<", "-", "#", "/", "x", NEWLINE, " "}

InitOperators ==
    /\ src \in SeqsUpTo(OperatorAlphabet, MaxOpLen)
    /\ overflow_checks \in BOOLEAN
    /\ lexer = Lexer_new
    /\ panicked = FALSE
    /\ ret = NoToken
    /\ ncalls = 0
    /\ peeked = NoToken
    /\ current_token_span = Span(0, 0)
    /\ result = NoResult
    /\ advanced = <<>>

SpecOperators == InitOperators /\ [][Next]_vars

----------------------------------------------------------------------------
(* Parser: the token cursor (src/src/parser/mod.rs) *)

\* The Parser's fields that change, as one value, together with the
\* history of the tokens advance has handed to a caller other than peek.
ParserState ==
    [lexer |-> lexer, peeked |-> peeked,
     current_token_span |-> current_token_span, advanced |-> advanced]

\* What a Parser method leaves and returns.  tag is "Ok" or "Err" for a
\* Result (a plain return value is "Ok"), and "Panic" when the call panics.
Ret(P, tag, val) == [parser |-> P, tag |-> tag, val |-> val]

\* TokenKind's derived PartialEq: the variant and its payload.
TokenKind(t) == Tok(t.kind, t.text)

\* ParserError::new; help is <<>> for None and <<h>> for Some(h).
ParserError_new(kind, help) == [kind |-> kind, help |-> help]

\* ParserError::with_help
with_help(e, help) == [e EXCEPT !.help = <<help>>]

\* Each method below hands the result of a call it makes to a local
\* operator that is the rest of its body, in the order of the source.

\* Parser::advance
Parser_advance(P) ==
    LET lexed(r) ==
            IF r.panic
            THEN Ret([P EXCEPT !.lexer = r.lexer], "Panic",
                     "attempt to subtract with overflow")
            ELSE Ret([P EXCEPT !.lexer = r.lexer,
                               !.current_token_span =
                                   Span(r.tok.start, r.tok.end),
                               !.advanced = Append(P.advanced, r.tok)],
                     "Ok", r.tok)
    IN  IF P.peeked.kind # "None"
        THEN Ret([P EXCEPT !.peeked = NoToken,
                           !.current_token_span =
                               Span(P.peeked.start, P.peeked.end),
                           !.advanced = Append(P.advanced, P.peeked)],
                 "Ok", P.peeked)
        ELSE lexed(next_token(P.lexer))

\* Parser::peek not storing the token it pulled.
Parser_peek_forgets(P) ==
    LET drop(a) ==
            IF a.tag = "Panic" THEN a
            ELSE Ret([a.parser EXCEPT !.advanced = P.advanced], "Ok", a.val)
    IN  IF P.peeked.kind = "None"
        THEN drop(Parser_advance(P))
        ELSE Ret(P, "Ok", P.peeked)

\* Parser::peek.  The token its own call of advance returns goes into
\* peeked and not to the caller, so the history is left as it was.
Parser_peek(P) ==
    LET store(a) ==
            IF a.tag = "Panic" THEN a
            ELSE Ret([a.parser EXCEPT !.peeked = a.val,
                                      !.advanced = P.advanced],
                     "Ok", a.val)
    IN  IF P.peeked.kind = "None"
        THEN store(Parser_advance(P))
        ELSE Ret(P, "Ok", P.peeked)

\* Parser::at_end
Parser_at_end(P) ==
    LET is_eof(p) ==
            IF p.tag = "Panic" THEN p
            ELSE Ret(p.parser, "Ok", p.val.kind = "EoF")
    IN  is_eof(Parser_peek(P))

\* Parser::consume advancing over the next token whatever it is.
Parser_consume_skips(P, expected) ==
    LET compare(p) ==
            IF p.tag = "Panic" THEN p
            ELSE IF TokenKind(p.val) = expected
            THEN Ret(Parser_advance(p.parser).parser, "Ok", <<>>)
            ELSE Ret(Parser_advance(p.parser).parser, "Err",
                     ParserError_new(
                         [kind |-> "Expected", expected |-> <<expected>>,
                          found |-> TokenKind(p.val),
                          span |-> Span(p.val.start, p.val.end)],
                         <<>>))
    IN  compare(Parser_peek(P))

\* Parser::consume
Parser_consume(P, expected) ==
    LET compare(p) ==
            IF p.tag = "Panic" THEN p
            ELSE IF TokenKind(p.val) = expected
            THEN Ret(Parser_advance(p.parser).parser, "Ok", <<>>)
            ELSE Ret(p.parser, "Err",
                     ParserError_new(
                         [kind |-> "Expected", expected |-> <<expected>>,
                          found |-> TokenKind(p.val),
                          span |-> Span(p.val.start, p.val.end)],
                         <<>>))
    IN  compare(Parser_peek(P))

\* The arms of synchronize's match without TokenKind::Let.
StatementStart_missing_let == {"Fun", "Return", "If", "For", "While"}

\* The tokens at which synchronize stops.
StatementStart == {"Fun", "Let", "Return", "If", "For", "While"}

\* One pass of the while loop of Parser::synchronize: the test, and the
\* body when the test lets it run.  exit is TRUE when the loop is left (or
\* the call panics), and ret is then what synchronize returns.
synchronize_iteration(P) ==
    LET step(e) ==
            IF e.tag = "Panic" THEN [exit |-> TRUE, ret |-> e]
            ELSE IF e.val
            THEN [exit |-> TRUE, ret |-> Ret(e.parser, "Ok", <<>>)]
            ELSE IF Parser_peek(e.parser).val.kind \in StatementStart
            THEN [exit |-> TRUE, ret |-> Ret(e.parser, "Ok", <<>>)]
            ELSE [exit |-> FALSE, ret |-> Parser_advance(e.parser)]
    IN  step(Parser_at_end(P))

RECURSIVE Parser_synchronize(_)
\* Parser::synchronize
Parser_synchronize(P) ==
    LET loop(it) ==
            IF it.exit THEN it.ret ELSE Parser_synchronize(it.ret.parser)
    IN  loop(synchronize_iteration(P))

----------------------------------------------------------------------------
(* Parser: expressions and statements *)

DigitValue ==
    ("0" :> 0) @@ ("1" :> 1) @@ ("2" :> 2) @@ ("3" :> 3) @@ ("4" :> 4)
    @@ ("5" :> 5) @@ ("6" :> 6) @@ ("7" :> 7) @@ ("8" :> 8) @@ ("9" :> 9)

\* i64::MAX, 9223372036854775807, in decimal digits.
I64Max ==
    <<"9", "2", "2", "3", "3", "7", "2", "0", "3", "6", "8", "5", "4",
      "7", "7", "5", "8", "0", "7">>

RECURSIVE strip_zeros(_)
\* The digits without leading zeros.
strip_zeros(d) ==
    IF Len(d) > 1 /\ Head(d) = "0" THEN strip_zeros(Tail(d)) ELSE d

RECURSIVE digits_le(_, _)
\* a <= b for two digit runs of the same length.
digits_le(a, b) ==
    IF a = <<>> THEN TRUE
    ELSE IF DigitValue[Head(a)] # DigitValue[Head(b)]
    THEN DigitValue[Head(a)] < DigitValue[Head(b)]
    ELSE digits_le(Tail(a), Tail(b))

\* str::parse::<i64> on the text of an Integer token (which holds no sign):
\* an error when a character is no ASCII digit or the number exceeds
\* i64::MAX; otherwise the number, kept as its decimal digits because it
\* need not fit TLC's integers.
parse_i64(text) ==
    IF text = <<>> \/ \E k \in 1..Len(text) : text[k] \notin AsciiDigits
    THEN [ok |-> FALSE, value |-> <<>>]
    ELSE LET d == strip_zeros(text)
         IN  IF \/ Len(d) < Len(I64Max)
                \/ Len(d) = Len(I64Max) /\ digits_le(d, I64Max)
             THEN [ok |-> TRUE, value |-> d]
             ELSE [ok |-> FALSE, value |-> <<>>]

\* Spanned<Expr>
Spanned(expr, span) == [expr |-> expr, span |-> span]

\* The panic message of todo!().
Todo == "not yet implemented"

RECURSIVE parse_expression(_, _), prefix_rule(_, _), parse_grouping(_),
          parse_tuple_loop(_, _), parse_tuple(_, _), parse_unary(_, _),
          parse_array_loop(_, _), parse_array(_, _)

\* Parser::parse_literal
parse_literal(P, current) ==
    CASE current.kind = "Integer" ->
            LET n == parse_i64(current.text)
            IN  IF n.ok
                THEN Ret(P, "Ok",
                         Spanned([node |-> "Literal", kind |-> "Int",
                                  value |-> n.value],
                                 Span(current.start, current.end)))
                ELSE Ret(P, "Panic",
                         "called Result::unwrap() on an Err value")
      [] current.kind = "String" ->
            Ret(P, "Ok",
                Spanned([node |-> "Literal", kind |-> "String",
                         value |-> current.text],
                        Span(current.start, current.end)))
      [] current.kind \in {"True", "False"} ->
            Ret(P, "Ok",
                Spanned([node |-> "Literal", kind |-> "Bool",
                         value |-> (current.kind = "True")],
                        Span(current.start, current.end)))
      [] OTHER -> Ret(P, "Panic", "internal error: entered unreachable code")

\* Parser::parse_block
parse_block(P, current) ==
    LET close(c) ==
            IF c.tag = "Err"
            THEN Ret(c.parser, "Err",
                     with_help(c.val, "Did you forget an end?"))
            ELSE Ret(c.parser, "Ok",
                     Spanned([node |-> "Block", items |-> <<>>],
                             Span(current.start,
                                  c.parser.current_token_span.end)))
        loop(e) ==
            IF e.tag = "Panic" THEN e
            ELSE IF ~e.val /\ Parser_peek(e.parser).val.kind # "End"
            THEN Ret(e.parser, "Panic", Todo)
            ELSE close(Parser_consume(e.parser, Tok("End", <<>>)))
    IN  loop(Parser_at_end(P))

\* Parser::parse_expression
parse_expression(P, precedence) ==
    LET infix(lhs) ==
            IF lhs.tag # "Ok" THEN lhs
            ELSE Ret(lhs.parser, "Panic", Todo)
        prefix(a) ==
            IF a.tag = "Panic" THEN a
            ELSE infix(prefix_rule(a.parser, a.val))
    IN  prefix(Parser_advance(P))

\* Parser::prefix_rule
prefix_rule(P, token) ==
    CASE token.kind \in {"Integer", "String", "True", "False"} ->
            parse_literal(P, token)
      [] token.kind = "Ident" ->
            Ret(P, "Ok",
                Spanned([node |-> "Ident", name |-> token.text],
                        Span(token.start, token.end)))
      [] token.kind = "OpenParen" -> parse_grouping(P)
      [] token.kind \in {"Minus", "Bang"} -> parse_unary(P, token)
      [] token.kind = "OpenBracket" -> parse_array(P, token)
      [] token.kind = "Do" -> parse_block(P, token)
      [] OTHER -> Ret(P, "Panic", Todo)

\* Parser::parse_grouping
parse_grouping(P) ==
    LET close(c, expr) ==
            IF c.tag = "Err"
            THEN Ret(c.parser, "Err",
                     with_help(c.val,
                               "Expeted to find a closing parenthesis."))
            ELSE Ret(c.parser, c.tag, expr.val)
        after(pk, expr) ==
            IF pk.tag = "Panic" THEN pk
            ELSE IF pk.val.kind = "Comma"
            THEN parse_tuple(pk.parser, expr.val)
            ELSE close(Parser_consume(pk.parser, Tok("CloseParen", <<>>)),
                       expr)
        inner(expr) ==
            IF expr.tag # "Ok" THEN expr
            ELSE after(Parser_peek(expr.parser), expr)
    IN  inner(parse_expression(P, 1))

\* The while loop of parse_tuple: the items, or the error that ends it.
parse_tuple_loop(P, items) ==
    LET push(item) ==
            IF item.tag # "Ok" THEN item
            ELSE parse_tuple_loop(item.parser, Append(items, item.val))
        comma(c) ==
            IF c.tag = "Err"
            THEN Ret(c.parser, "Err",
                     with_help(c.val, "Did you forget a comma?"))
            ELSE push(parse_expression(c.parser, 1))
        test(pk) ==
            IF pk.tag = "Panic" THEN pk
            ELSE IF pk.val.kind = "CloseParen"
            THEN Ret(pk.parser, "Ok", items)
            ELSE comma(Parser_consume(pk.parser, Tok("Comma", <<>>)))
    IN  test(Parser_peek(P))

\* Parser::parse_tuple
parse_tuple(P, first) ==
    LET start == first.span.start
        close(c, items) ==
            IF c.tag = "Err"
            THEN Ret(c.parser, "Err",
                     with_help(c.val,
                               "Expeted to find a closing parenthesis."))
            ELSE IF start >= 1
            THEN Ret(c.parser, "Ok",
                     Spanned([node |-> "Tuple", items |-> items],
                             Span(start - 1,
                                  c.parser.current_token_span.end)))
            ELSE IF overflow_checks
            THEN Ret(c.parser, "Panic", "attempt to subtract with overflow")
            ELSE Ret(c.parser, "Ok",
                     Spanned([node |-> "Tuple", items |-> items],
                             Span(start - 1 + UsizeModulus,
                                  c.parser.current_token_span.end)))
        done(loop) ==
            IF loop.tag # "Ok" THEN loop
            ELSE close(Parser_consume(loop.parser, Tok("CloseParen", <<>>)),
                       loop.val)
    IN  done(parse_tuple_loop(P, <<first>>))

\* Parser::parse_unary
parse_unary(P, current) ==
    LET wrap(expr) ==
            IF expr.tag # "Ok" THEN expr
            ELSE Ret(expr.parser, "Ok",
                     Spanned([node |-> "Unary", op |-> TokenKind(current),
                              rhs |-> expr.val],
                             Span(current.start, expr.val.span.end)))
    IN  wrap(parse_expression(P, 8))

\* The while loop of parse_array: the items, or the error that ends it.
parse_array_loop(P, items) ==
    LET comma(c, item) ==
            IF c.tag = "Err"
            THEN Ret(c.parser, "Err",
                     with_help(c.val, "Did you forget a comma?"))
            ELSE parse_array_loop(c.parser, Append(items, item.val))
        after(pk, item) ==
            IF pk.tag = "Panic" THEN pk
            ELSE IF pk.val.kind = "CloseBracket"
            THEN Ret(pk.parser, "Ok", Append(items, item.val))
            ELSE comma(Parser_consume(pk.parser, Tok("Comma", <<>>)), item)
        push(item) ==
            IF item.tag # "Ok" THEN item
            ELSE after(Parser_peek(item.parser), item)
        test(pk) ==
            IF pk.tag = "Panic" THEN pk
            ELSE IF pk.val.kind = "CloseBracket"
            THEN Ret(pk.parser, "Ok", items)
            ELSE push(parse_expression(pk.parser, 1))
    IN  test(Parser_peek(P))

\* Parser::parse_array
parse_array(P, current) ==
    LET close(c, items) ==
            IF c.tag = "Err"
            THEN Ret(c.parser, "Err",
                     with_help(c.val, "Expeted to find a closing bracket."))
            ELSE Ret(c.parser, "Ok",
                     Spanned([node |-> "Array", items |-> items],
                             Span(current.start,
                                  c.parser.current_token_span.end)))
        done(loop) ==
            IF loop.tag # "Ok" THEN loop
            ELSE close(Parser_consume(loop.parser,
                                      Tok("CloseBracket", <<>>)),
                       loop.val)
    IN  done(parse_array_loop(P, <<>>))

\* Parser::parse_statement: it peeks, and the rest is todo!().
parse_statement(P) ==
    LET rest(peeked_token) ==
            IF peeked_token.tag = "Panic" THEN peeked_token
            ELSE Ret(peeked_token.parser, "Panic", Todo)
    IN  rest(Parser_peek(P))

----------------------------------------------------------------------------
(* The parser driven by its methods *)

\* Longest source text of SpecParser, in words.
MaxWords == 2

\* The words the source texts of SpecParser are made of.
ParserWords ==
    {<<"(">>, <<")">>, <<"[">>, <<"]">>, <<",">>, <<"-">>, <<"1">>, <<"x">>,
     <<"d", "o">>, <<"e", "n", "d">>, <<"l", "e", "t">>, <<"$">>, <<" ">>}

\* 9223372036854775808, the number after i64::MAX.
I64MaxPlusOne ==
    <<"9", "2", "2", "3", "3", "7", "2", "0", "3", "6", "8", "5", "4",
      "7", "7", "5", "8", "0", "8">>

\* Two malformed statements around a let statement:  )let x=1)
RecoverySource == <<")", "l", "e", "t", " ", "x", "=", "1", ")">>

\* A lower-tier operator followed by a higher-tier one:  1 + 2 * 3
PrecedenceSource == <<"1", " ", "+", " ", "2", " ", "*", " ", "3">>

\* A parenthesised expression:  (1)
GroupingSource == <<"(", "1", ")">>

\* Tuples of one and of two elements, without and with a trailing comma:
\* (1,)  (1, 2)  (1, 2,)
TupleSources ==
    {<<"(", "1", ",", ")">>,
     <<"(", "1", ",", " ", "2", ")">>,
     <<"(", "1", ",", " ", "2", ",", ")">>}

\* Source texts beyond those made of at most MaxWords words.
SampleSources ==
    {I64Max, I64MaxPlusOne, RecoverySource, PrecedenceSource, GroupingSource}
        \cup TupleSources

RECURSIVE Concat(_)
\* The words of a sequence, joined.
Concat(ws) == IF ws = <<>> THEN <<>> ELSE Head(ws) \o Concat(Tail(ws))

ParserSources ==
    {Concat(ws) : ws \in SeqsUpTo(ParserWords, MaxWords)} \cup SampleSources

\* Parser::new
InitParser ==
    /\ src \in ParserSources
    /\ overflow_checks \in BOOLEAN
    /\ lexer = Lexer_new
    /\ panicked = FALSE
    /\ ret = NoToken
    /\ ncalls = 0
    /\ peeked = NoToken
    /\ current_token_span = Span(0, 0)
    /\ result = NoResult
    /\ advanced = <<>>

\* A call of the Parser method op with argument arg that returned (or
\* panicked with) r.
CalledWith(op, arg, r) ==
    /\ lexer' = r.parser.lexer
    /\ peeked' = r.parser.peeked
    /\ current_token_span' = r.parser.current_token_span
    /\ advanced' = r.parser.advanced
    /\ panicked' = (r.tag = "Panic")
    /\ result' = [op |-> op, arg |-> arg, tag |-> r.tag, val |-> r.val]
    /\ UNCHANGED <<src, overflow_checks, ret, ncalls>>

\* A call of a Parser method that takes no argument.
Called(op, r) == CalledWith(op, <<>>, r)

\* A method can be called: no panic so far, and the calls made at the end
\* of the input are within the bound.
Callable ==
    /\ ~panicked
    /\ lexer.position < Len(src) + MaxEofCalls

Advance == Callable /\ Called("advance", Parser_advance(ParserState))

Peek == Callable /\ Called("peek", Parser_peek(ParserState))

AtEnd == Callable /\ Called("at_end", Parser_at_end(ParserState))

\* The token kinds the parser hands to consume.
ConsumeKinds == {"CloseParen", "CloseBracket", "Comma", "End"}

Consume ==
    /\ Callable
    /\ \E k \in ConsumeKinds :
           CalledWith("consume", Tok(k, <<>>),
                      Parser_consume(ParserState, Tok(k, <<>>)))

Synchronize ==
    Callable /\ Called("synchronize", Parser_synchronize(ParserState))

ParseExpression ==
    /\ Callable
    /\ \E precedence \in {1, 8} :
           CalledWith("parse_expression", precedence,
                      parse_expression(ParserState, precedence))

ParseStatement ==
    Callable /\ Called("parse_statement", parse_statement(ParserState))

NextParser ==
    \/ Advance
    \/ Peek
    \/ AtEnd
    \/ Consume
    \/ Synchronize
    \/ ParseExpression
    \/ ParseStatement

SpecParser == InitParser /\ [][NextParser]_vars

----------------------------------------------------------------------------
(* What the claims speak of *)

RECURSIVE utf8(_)
\* The UTF-8 encoding of a text: byte k of character c is <<c, k>>.
utf8(s) ==
    IF s = <<>> THEN <<>>
    ELSE [k \in 1..len_utf8(Head(s)) |-> <<Head(s), k>>] \o utf8(Tail(s))

\* The length of the source in bytes.
SourceByteLen == str_len(src)

\* The byte offset at which character number k + 1 of the source starts.
ByteOffset(k) == str_len(SubSeq(src, 1, k))

\* &source[start..end] is defined and is the text.
SliceIs(start, end, text) ==
    /\ start <= end
    /\ end <= SourceByteLen
    /\ SubSeq(utf8(src), start + 1, end) = utf8(text)

\* The text of a token that is not a literal.
Lexeme(t) ==
    IF t.kind = "Ident" THEN t.text
    ELSE IF t.kind \in DOMAIN Keywords THEN Keywords[t.kind]
    ELSE IF \E c \in DOMAIN OneCharTokens : OneCharTokens[c] = t.kind
    THEN <<CHOOSE c \in DOMAIN OneCharTokens : OneCharTokens[c] = t.kind>>
    ELSE IF \E c \in DOMAIN TwoCharOps : TwoCharOps[c][3] = t.kind
    THEN <<CHOOSE c \in DOMAIN TwoCharOps : TwoCharOps[c][3] = t.kind>>
    ELSE LET c == CHOOSE d \in DOMAIN TwoCharOps : TwoCharOps[d][2] = t.kind
         IN  <<c, TwoCharOps[c][1]>>

NonLiteralKinds ==
    {"Ident"} \cup DOMAIN Keywords
    \cup {OneCharTokens[c] : c \in DOMAIN OneCharTokens}
    \cup {TwoCharOps[c][2] : c \in DOMAIN TwoCharOps}
    \cup {TwoCharOps[c][3] : c \in DOMAIN TwoCharOps}

IsUnterminated(t) ==
    t.kind = "Error" /\ t.text = <<"Unterminated string literal">>

RECURSIVE FirstNonWhitespace(_)
\* The number of characters before the first character at or after
\* position k + 1 that is not whitespace (Len(src) when there is none).
FirstNonWhitespace(k) ==
    IF k < Len(src) /\ is_whitespace(src[k + 1])
    THEN FirstNonWhitespace(k + 1)
    ELSE k

\* A character that starts no token.
StartsNoToken(c) ==
    /\ c \notin DOMAIN OneCharTokens \cup DOMAIN TwoCharOps \cup {QUOTE, "_"}
    /\ ~is_numeric(c)
    /\ ~is_xid_start(c)
    /\ ~is_whitespace(c)

RECURSIVE LexerAfter(_)
\* The Lexer after k calls of next_token on src, from Lexer::new.
LexerAfter(k) ==
    IF k = 0 THEN Lexer_new ELSE next_token(LexerAfter(k - 1)).lexer

\* The k-th token of the lexer's token sequence for src, counted from 1.
TokenAt(k) == next_token(LexerAfter(k - 1)).tok

----------------------------------------------------------------------------
(* Claims *)

\* C1: once the input is exhausted (no character is left, or EoF has been
\* returned), every further call of next_token returns EoF and nothing else.
C1_EofForever ==
    [][(Lexer_at_end(lexer) \/ ret.kind = "EoF")
        => (~panicked' /\ ret'.kind = "EoF")]_vars

\* C1 witness: EoF has been returned by three calls in a row after a token.
C1_Witness ==
    /\ Len(src) = 1
    /\ ncalls = 4
    /\ ret.kind = "EoF"

\* C2: every EoF token carries the empty span [n, n) with n the length of
\* the source.
C2_EofSpanAtFinalOffset ==
    ret.kind = "EoF" => (ret.start = SourceByteLen /\ ret.end = SourceByteLen)

\* C3: the span of every non-literal token returned by next_token slices the
\* source to exactly the token's lexeme.
C3_NonLiteralSpanIsLexeme ==
    ret.kind \in NonLiteralKinds => SliceIs(ret.start, ret.end, Lexeme(ret))

\* C4: the span of a terminated string literal String(v) slices the source
\* to v, the content between the quotes.
C4_StringSpanIsContent ==
    ret.kind = "String" => SliceIs(ret.start, ret.end, ret.text)

\* C5: computing a span never underflows, and every span returned has
\* start <= end and end <= the length of the source in bytes.
C5_SpanInsideSource ==
    /\ ~panicked
    /\ ret.kind # "None" => (ret.start <= ret.end /\ ret.end <= SourceByteLen)

\* C8: when the next token starts at a quote that no later quote closes, the
\* call returns (without a crash) an Error token whose span is the content
\* after that quote, and the call after an unterminated-string Error returns
\* EoF.
C8_UnterminatedString ==
    [][/\ LET j == FirstNonWhitespace(lexer.idx)
          IN  (/\ j < Len(src)
               /\ src[j + 1] = QUOTE
               /\ \A k \in (j + 2)..Len(src) : src[k] # QUOTE)
              => /\ ~panicked'
                 /\ IsUnterminated(ret')
                 /\ ret'.start = ByteOffset(j + 1)
                 /\ ret'.end = SourceByteLen
       /\ IsUnterminated(ret) => ret'.kind = "EoF"]_vars

\* C9: when the next token starts at a character that starts no token, the
\* call returns an Error token naming it and consumes exactly that
\* character, so the next call starts at the character after it.
C9_UnknownCharacter ==
    [][LET j == FirstNonWhitespace(lexer.idx)
       IN  (j < Len(src) /\ StartsNoToken(src[j + 1]))
           => /\ ~panicked'
              /\ ret'.kind = "Error"
              /\ ret'.text = <<"Unknown character", src[j + 1]>>
              /\ lexer'.idx = j + 1]_vars

\* C9 witness: three unknown characters in a row have given three Error
\* tokens in three calls.
C9_Witness ==
    /\ Len(src) = 3
    /\ \A k \in 1..3 : StartsNoToken(src[k])
    /\ ncalls = 3
    /\ lexer.idx = 3
    /\ ret.kind = "Error"
    /\ ret.text = <<"Unknown character", src[3]>>

\* The tokens that start an expression (the prefix rules of the spec).
PrefixKinds ==
    {"Integer", "String", "True", "False", "Ident", "OpenParen",
     "OpenBracket", "Minus", "Bang", "Do", "If", "For", "While"}

\* C6: parse_expression at an Integer token whose text does not convert to
\* an i64 returns Err(ParserError); it does not panic.
C6_IntegerConversionIsError ==
    [][LET p == Parser_peek(ParserState)
       IN  (/\ result'.op = "parse_expression"
            /\ p.tag = "Ok"
            /\ p.val.kind = "Integer"
            /\ ~parse_i64(p.val.text).ok)
           => (~panicked' /\ result'.tag = "Err")]_vars

\* C7: parse_expression at a token that has no prefix rule returns
\* Err(ParserError) naming that token; it does not panic.
C7_NoPrefixRuleIsError ==
    [][LET p == Parser_peek(ParserState)
       IN  (/\ result'.op = "parse_expression"
            /\ p.tag = "Ok"
            /\ p.val.kind \notin PrefixKinds)
           => /\ ~panicked'
              /\ result'.tag = "Err"
              /\ result'.val.kind.found = TokenKind(p.val)]_vars

\* C10: on the source of two malformed statements around a let statement,
\* parse_statement returns an error at each malformed statement (two
\* errors, at different spans) and the Let statement in between.
C10_Recovery ==
    [][LET p == Parser_peek(ParserState)
       IN  (/\ src = RecoverySource
            /\ result'.op = "parse_statement"
            /\ p.tag = "Ok"
            /\ p.val.kind \in {"Let", "CloseParen"})
           => /\ ~panicked'
              /\ IF p.val.kind = "Let"
                 THEN result'.tag = "Ok" /\ result'.val.expr.node = "Let"
                 ELSE /\ result'.tag = "Err"
                      /\ result'.val.kind.span
                             = Span(p.val.start, p.val.end)]_vars

\* C11: when synchronize returns, the next token is one of fun, let,
\* return, if, for, while or EoF, it is still unconsumed (the parser holds
\* it as the token after the ones advance has handed out), and none of
\* the tokens the call discarded is one of those seven.
C11_SynchronizeStopsAtStatement ==
    [][(result'.op = "synchronize" /\ result'.tag = "Ok")
       => LET seven == {"Fun", "Let", "Return", "If", "For", "While", "EoF"}
              n == Len(advanced')
          IN  /\ peeked' = TokenAt(n + 1)
              /\ peeked'.kind \in seven
              /\ Len(advanced) <= n
              /\ SubSeq(advanced', 1, Len(advanced)) = advanced
              /\ \A i \in (Len(advanced) + 1) .. n :
                     advanced'[i].kind \notin seven]_vars

\* synchronize has returned in front of a let, with a ) thrown away.
C11_Witness ==
    /\ result.op = "synchronize"
    /\ result.tag = "Ok"
    /\ peeked.kind = "Let"
    /\ Len(advanced) = 1
    /\ advanced[1].kind = "CloseParen"

\* What parse_expression(1) returned for the whole of a source text: the
\* step is a call made on a fresh parser.
ParsedFromStart ==
    /\ advanced = <<>>
    /\ peeked = NoToken
    /\ result'.op = "parse_expression"
    /\ result'.arg = 1

\* The integer literal n as an expression, whatever its span.
IsInt(e, n) ==
    /\ e.expr.node = "Literal"
    /\ e.expr.kind = "Int"
    /\ e.expr.value = n

\* C12: parsing 1 + 2 * 3 with parse_expression yields a binary + node
\* whose left child is 1 and whose right child is the binary * node of 2
\* and 3: the higher-tier operation is the right child of the lower-tier
\* one.
C12_PrecedenceClimbing ==
    [][(ParsedFromStart /\ src = PrecedenceSource)
       => /\ result'.tag = "Ok"
          /\ result'.val.expr.node = "Binary"
          /\ result'.val.expr.op = Tok("Plus", <<>>)
          /\ IsInt(result'.val.expr.lhs, 1)
          /\ result'.val.expr.rhs.expr.node = "Binary"
          /\ result'.val.expr.rhs.expr.op = Tok("Star", <<>>)
          /\ IsInt(result'.val.expr.rhs.expr.lhs, 2)
          /\ IsInt(result'.val.expr.rhs.expr.rhs, 3)]_vars

\* C13: parsing (e) yields the inner expression itself, with no tuple
\* around it; parsing (e,) or (e1, e2, ...) yields a Tuple holding the
\* elements in source order, with or without a comma before the closing
\* parenthesis.
C13_GroupingAndTuple ==
    [][ParsedFromStart
       => /\ src = GroupingSource
             => /\ result'.tag = "Ok"
                /\ IsInt(result'.val, 1)
          /\ src \in TupleSources
             => /\ result'.tag = "Ok"
                /\ result'.val.expr.node = "Tuple"
                /\ Len(result'.val.expr.items) = (IF Len(src) = 4 THEN 1 ELSE 2)
                /\ \A i \in 1 .. Len(result'.val.expr.items) :
                       IsInt(result'.val.expr.items[i], i)]_vars

\* C14: the text of an Integer token is a maximal run of the decimal
\* digits 0 to 9: no other character, such as another Unicode numeric
\* character, starts or is part of an Integer token, and the character
\* after the token is not a decimal digit.
C14_IntegerIsDecimalDigits ==
    LET decimal == {"0", "1", "2", "3", "4", "5", "6", "7", "8", "9"}
    IN  ret.kind = "Integer"
        => /\ ret.text # <<>>
           /\ \A i \in 1 .. Len(ret.text) : ret.text[i] \in decimal
           /\ lexer.idx < Len(src) => src[lexer.idx + 1] \notin decimal

\* The usual ways to start a comment that runs to the end of the line.
LineCommentMarkers == {<<"#">>, <<"/", "/">>, <<"-", "-">>}

\* C15: comments never produce tokens.  The lexer names no comment
\* syntax, so the claim is stated for each usual line marker: when the
\* source text is nothing but one comment (it starts with the marker and
\* holds no line end), the first token next_token returns is EoF, and not
\* a token made of the characters of the comment.
C15_CommentsProduceNoToken ==
    [][\A m \in LineCommentMarkers :
         (/\ ncalls = 0
          /\ ncalls' = 1
          /\ Len(src) >= Len(m)
          /\ SubSeq(src, 1, Len(m)) = m
          /\ \A i \in 1 .. Len(src) : src[i] # NEWLINE)
         => /\ ~panicked'
            /\ ret'.kind = "EoF"]_vars

\* C16: for each of = ! > < -, when the next character is the matching
\* second character (= = = = >) next_token returns the two-character
\* token and consumes both; otherwise it returns the one-character token
\* and leaves the following character unconsumed.
C16_TwoCharacterOperators ==
    [][LET k == FirstNonWhitespace(lexer.idx)
           second == [c \in {"=", "!", ">", "<", "-"} |->
                         IF c = "-" THEN ">" ELSE "="]
           two == [c \in {"=", "!", ">", "<", "-"} |->
                      CASE c = "=" -> "EqualEqual"
                        [] c = "!" -> "BangEqual"
                        [] c = ">" -> "GreaterEqual"
                        [] c = "<" -> "LessEqual"
                        [] c = "-" -> "Arrow"]
           one == [c \in {"=", "!", ">", "<", "-"} |->
                      CASE c = "=" -> "Equal"
                        [] c = "!" -> "Bang"
                        [] c = ">" -> "Greater"
                        [] c = "<" -> "Less"
                        [] c = "-" -> "Minus"]
       IN  (/\ ncalls' = ncalls + 1
            /\ k < Len(src)
            /\ src[k + 1] \in DOMAIN second)
           => /\ ~panicked'
              /\ IF k + 2 <= Len(src) /\ src[k + 2] = second[src[k + 1]]
                 THEN /\ ret'.kind = two[src[k + 1]]
                      /\ lexer'.idx = k + 2
                 ELSE /\ ret'.kind = one[src[k + 1]]
                      /\ lexer'.idx = k + 1]_vars

\* === has been lexed as EqualEqual and then Equal.
C16_Witness ==
    /\ src = <<"=", "=", "=">>
    /\ ncalls = 2
    /\ ret.kind = "Equal"
    /\ lexer.idx = 3

\* C17: after any sequence of next_token calls the line counter is 1 plus
\* the number of line ends consumed so far, those inside string literals
\* included, and column is 0 when the character consumed last is a line
\* end.
C17_LineCountsNewlines ==
    LET consumed == SubSeq(src, 1, lexer.idx)
        newlines == {i \in 1 .. Len(consumed) : consumed[i] = NEWLINE}
    IN  /\ lexer.line = 1 + Cardinality(newlines)
        /\ (consumed # <<>> /\ consumed[Len(consumed)] = NEWLINE)
           => lexer.column = 0

\* The tokens the parser has pulled from the lexer and not handed out.
Unconsumed == IF peeked.kind = "None" THEN 0 ELSE 1

\* The parser as a cursor over the lexer's token sequence: the tokens
\* advance has handed out are the first tokens of the sequence, in order;
\* the lexer stands right after them and after the peeked token, if there
\* is one; and the peeked token is the next token of the sequence.
CursorOverTokens ==
    /\ \A i \in 1 .. Len(advanced) : advanced[i] = TokenAt(i)
    /\ lexer = LexerAfter(Len(advanced) + Unconsumed)
    /\ peeked.kind # "None" => peeked = TokenAt(Len(advanced) + 1)

\* C18: for any interleaving of peek, at_end, consume and advance, the
\* tokens returned by advance are the lexer's token sequence for the
\* source, in order, none skipped and none twice; the parser holds at most
\* one token it has pulled and not handed out; and a peek after a peek
\* pulls no further token and returns the same token.
C18_ParserRefinesLexer ==
    /\ [](~panicked => CursorOverTokens)
    /\ [][/\ (result'.op = "advance" /\ result'.tag = "Ok")
             => /\ advanced' = Append(advanced, result'.val)
                /\ result'.val = TokenAt(Len(advanced) + 1)
          /\ (result'.op = "peek" /\ result'.tag = "Ok"
                 /\ peeked.kind # "None")
             => /\ lexer' = lexer
                /\ peeked' = peeked
                /\ advanced' = advanced
                /\ result'.val = peeked]_vars

\* Two tokens have been handed out by advance and a third one is peeked,
\* by a peek that found it already peeked.
C18_Witness ==
    /\ Len(advanced) = 2
    /\ peeked.kind # "None"
    /\ result.op = "peek"
    /\ result.tag = "Ok"
    /\ lexer = LexerAfter(3)
    /\ advanced[1] # advanced[2]

\* C19: consume(expected) looks at the next token of the lexer's sequence.
\* When it equals expected it is consumed and Ok is returned; otherwise
\* the call returns Err(Expected([expected], found, span of found)) with
\* no help text, and the token is not consumed: it stays the next token.
C19_Consume ==
    [][(result'.op = "consume" /\ result'.tag # "Panic")
       => LET next == TokenAt(Len(advanced) + 1)
              found == [kind |-> next.kind, text |-> next.text]
              expected == result'.arg
          IN  IF found = expected
              THEN /\ result'.tag = "Ok"
                   /\ advanced' = Append(advanced, next)
                   /\ peeked' = NoToken
                   /\ lexer' = LexerAfter(Len(advanced) + 1)
              ELSE /\ result'.tag = "Err"
                   /\ result'.val.kind =
                          [kind |-> "Expected", expected |-> <<expected>>,
                           found |-> found,
                           span |-> [start |-> next.start,
                                     end |-> next.end]]
                   /\ result'.val.help = <<>>
                   /\ advanced' = advanced
                   /\ peeked' = next
                   /\ lexer' = LexerAfter(Len(advanced) + 1)]_vars

\* consume has failed on an identifier after a ) was consumed.
C19_Witness ==
    /\ result.op = "consume"
    /\ result.tag = "Err"
    /\ result.val.kind.found.kind = "Ident"
    /\ Len(advanced) = 1
    /\ advanced[1].kind = "CloseParen"
    /\ peeked.kind = "Ident"

\* What the loop of synchronize has left to do in the parser state P:
\* the characters not yet lexed, counted twice, and the peeked token.
Measure(P) ==
    2 * (Len(src) - P.lexer.idx) + (IF P.peeked.kind = "None" THEN 0 ELSE 1)

\* C20: from every parser state synchronize terminates.  A call of
\* next_token on input that is not exhausted consumes at least one
\* character, and every pass of the loop that does not leave it brings the
\* parser strictly closer to the end of the source, which is finite: the
\* measure is a natural number and decreases with every pass.
C20_SynchronizeTerminates ==
    LET consumes(r) == r.panic \/ r.lexer.idx > lexer.idx
        decreases(it) ==
            \/ it.exit
            \/ /\ Measure(it.ret.parser) >= 0
               /\ Measure(it.ret.parser) < Measure(ParserState)
    IN  ~panicked
        => /\ Measure(ParserState) >= 0
           /\ lexer.idx < Len(src) => consumes(next_token(lexer))
           /\ decreases(synchronize_iteration(ParserState))

\* synchronize has returned at the end of the input after three passes
\* of its loop, each of which threw a token away.
C20_Witness ==
    /\ result.op = "synchronize"
    /\ result.tag = "Ok"
    /\ Len(advanced) = 3
    /\ peeked.kind = "EoF"
    /\ lexer.idx = Len(src)

\* C21: current_token_span is the span of the token advance consumed
\* last, and 0..0 while no token has been consumed; peek, at_end and a
\* consume that fails leave it as it was.
C21_CurrentTokenSpan ==
    [][/\ ~panicked'
          => current_token_span' =
                 IF advanced' = <<>>
                 THEN [start |-> 0, end |-> 0]
                 ELSE [start |-> advanced'[Len(advanced')].start,
                       end |-> advanced'[Len(advanced')].end]
       /\ (\/ result'.op \in {"peek", "at_end"} /\ result'.tag = "Ok"
           \/ result'.op = "consume" /\ result'.tag = "Err")
          => current_token_span' = current_token_span]_vars

====
